---- MODULE Spec2Model ----
(***************************************************************************)
(* State-machine model of lib/file/fileIO.c of open-vm-tools: advisory     *)
(* locking of a file handle (FileIO_Lock / FileIO_Unlock), creation of the *)
(* sibling temporary file (FileIO_AtomicTempFile) and the atomic           *)
(* replacement of a file (FileIO_AtomicExchangeFiles), run by one caller   *)
(* process next to a second process that locks the same path.              *)
(***************************************************************************)
EXTENDS Integers, FiniteSets, Sequences, TLC

VARIABLES
  fs,        \* the file system: full path -> file node
  locks,     \* the advisory locks that exist on disk
  currFD,    \* the caller's FileIODescriptor of the original file
  newFD,     \* the caller's FileIODescriptor of the temporary file
  otherFD,   \* the FileIODescriptor of the second process
  hostVMK,   \* HostType_OSIsVMK()
  fileLocks, \* the build has file locks: !defined(__FreeBSD__) && !defined(sun)
  pc,        \* where the caller is
  ax,        \* the locals of FileIO_AtomicExchangeFiles
  pre,       \* the state when the caller's current call began
  last,      \* the caller's current call and, once returned, its result
  otherLast, \* the second process's last lock request and its result
  msg,       \* a call of FileIO_MsgError: its argument and what came of it
  dev        \* a call of GuestApp_GetDeviceInfo: arguments, host, progress

vars == <<fs, locks, currFD, newFD, otherFD, hostVMK, fileLocks, pc, ax, pre,
          last, otherLast, msg, dev>>

----------------------------------------------------------------------------
(* Bounds of the model *)

\* the caller writes contents 1..MaxContent into the temporary file; a new
\* file is empty, content 0
MaxContent == 1

\* FileIO_MsgError is given the codes of FileIOResult and MaxUnknown values
\* below and above them
MaxUnknown == 2

\* GuestApp_GetDeviceInfo is given records of 1..MaxInfoSize bytes
MaxInfoSize == 9

\* and the devices 0..MaxDeviceId
MaxDeviceId == 1

(* Program constants *)

\* a retry budget one short
RenameRetries_Short == 10 - 1

\* the retry budget FileIO_AtomicExchangeFiles hands to File_RenameRetry
RenameRetries == 10

\* errno values FileIO_Lock distinguishes, and one it does not (EIO)
ENOENT == 2
EIO == 5
EACCES == 13
EROFS == 30
ENAMETOOLONG == 36
LockErrs == {0, ENOENT, EIO, EACCES, EROFS, ENAMETOOLONG}

FILEIO_OPEN_ACCESS_READ == "FILEIO_OPEN_ACCESS_READ"
FILEIO_OPEN_ACCESS_WRITE == "FILEIO_OPEN_ACCESS_WRITE"
FILEIO_OPEN_LOCKED == "FILEIO_OPEN_LOCKED"

\* the access flags a caller opens or locks a file with
AccessChoices ==
  { {FILEIO_OPEN_ACCESS_READ},
    {FILEIO_OPEN_ACCESS_READ, FILEIO_OPEN_ACCESS_WRITE},
    {FILEIO_OPEN_ACCESS_READ, FILEIO_OPEN_LOCKED},
    {FILEIO_OPEN_ACCESS_READ, FILEIO_OPEN_ACCESS_WRITE, FILEIO_OPEN_LOCKED} }

----------------------------------------------------------------------------
(* Status codes and their messages *)

\* enum FileIOResult, in the order of its declaration: the value of a code
\* is its place less one, FILEIO_ERROR_LAST being the end marker
FileIOResult ==
  <<"FILEIO_SUCCESS", "FILEIO_CANCELLED", "FILEIO_ERROR",
    "FILEIO_OPEN_ERROR_EXIST", "FILEIO_LOCK_FAILED", "FILEIO_READ_ERROR_EOF",
    "FILEIO_FILE_NOT_FOUND", "FILEIO_NO_PERMISSION",
    "FILEIO_FILE_NAME_TOO_LONG", "FILEIO_WRITE_ERROR_FBIG",
    "FILEIO_WRITE_ERROR_NOSPC", "FILEIO_WRITE_ERROR_DQUOT",
    "FILEIO_ERROR_LAST">>

\* the values FileIO_MsgError is given
StatusValues == (0 - MaxUnknown)..(Len(FileIOResult) - 1 + MaxUnknown)

\* the case label the switch of FileIO_MsgError takes for a value
CaseOf(status) ==
  IF status \in 0..(Len(FileIOResult) - 1)
  THEN FileIOResult[status + 1] ELSE "none"

\* lines 99-171: result as the switch leaves it, NULL being ""
MsgOfCase(label) ==
  CASE label = "FILEIO_SUCCESS" -> "Success"
    [] label = "FILEIO_CANCELLED" -> "The operation was canceled by the user"
    [] label = "FILEIO_ERROR" -> "Error"
    [] label = "FILEIO_OPEN_ERROR_EXIST" -> "The file already exists"
    [] label = "FILEIO_LOCK_FAILED" -> "Failed to lock the file"
    [] label = "FILEIO_READ_ERROR_EOF" ->
         "Tried to read beyond the end of the file"
    [] label = "FILEIO_FILE_NOT_FOUND" -> "Could not find the file"
    [] label = "FILEIO_NO_PERMISSION" ->
         "Insufficient permission to access the file"
    [] label = "FILEIO_FILE_NAME_TOO_LONG" -> "The file name is too long"
    [] label = "FILEIO_WRITE_ERROR_FBIG" -> "The file is too large"
    [] label = "FILEIO_WRITE_ERROR_NOSPC" ->
         "There is no space left on the device"
    [] label = "FILEIO_WRITE_ERROR_DQUOT" ->
         "There is no space left on the device"
    [] OTHER -> ""

\* FileIO_MsgError(status): how the call ends and the message it returns;
\* NOT_IMPLEMENTED() at line 163 ends the process in every build, ASSERT(0)
\* at line 175 in a build with assertions
FileIO_MsgError(status, assertions) ==
  LET label == CaseOf(status)
      result == MsgOfCase(label)
  IN  IF label = "FILEIO_ERROR_LAST"
      THEN [outcome |-> "NOT_IMPLEMENTED", result |-> ""]
      ELSE IF result # ""
      THEN [outcome |-> "returned", result |-> result]
      ELSE IF assertions
      THEN [outcome |-> "ASSERT", result |-> ""]
      ELSE [outcome |-> "returned", result |-> "Unknown error"]

\* no call of FileIO_MsgError
NoMsg == [status |-> 0, assertions |-> FALSE, outcome |-> "none",
          result |-> ""]

----------------------------------------------------------------------------
(* Paths and file nodes *)

\* the original file is opened by a name relative to the working directory
\* /d; the temporary file is opened by its full path, the sibling's or that
\* of a file the caller makes in another directory
OrigName == "cfg"
ElsewherePath == "/e/new"
FullPaths == {"/d/cfg", "/d/cfg~", ElsewherePath}

\* File_FullPath: an absolute name is itself, a relative one is resolved
\* against the working directory
File_FullPath(name) ==
  IF name \in FullPaths THEN name ELSE "/d/" \o name

\* File_GetPathName: the directory of a full path
DirOf(path) == IF path = ElsewherePath THEN "/e" ELSE "/d"

NoFile == [exists |-> FALSE, content |-> 0, mode |-> 0, uid |-> 0, gid |-> 0]

\* the attributes the original file may have: 0666 root:root, 0600 user:users
OrigAttrs == { [mode |-> 438, uid |-> 0, gid |-> 0],
               [mode |-> 384, uid |-> 1000, gid |-> 100] }

\* the identity of the calling process, and its umask (022) applied to a mode
Creds == [uid |-> 1000, gid |-> 100]
Umask(m) == IF m = 438 THEN 420 ELSE m

\* the mode (0600) the caller gives a file it makes itself
ElsewhereMode == 384

----------------------------------------------------------------------------
(* File handles *)

NULL == {}
NoName == ""

\* FileIO_Invalidate: no platform handle, no flags, no name, no lock token
InvalidFD == [posix |-> -1, flags |-> {}, fileName |-> NoName, lockToken |-> NULL]

FileIO_IsValid(fd) == fd.posix # -1

\* the descriptor number each handle gets from the kernel when it is opened
FdNum == [curr |-> 3, new |-> 4, other |-> 5]

----------------------------------------------------------------------------
(* The FileLock module: advisory locks on disk *)

\* one lock on disk; live is FALSE once the handle that took it has dropped
\* its token without the lock being removed
LockRec(path, owner, excl, live) ==
  [path |-> path, owner |-> owner, excl |-> excl, live |-> live]

\* FileLock_Lock: a shared lock conflicts with an exclusive one, an
\* exclusive lock with every other; with no token the reason is err, and 0
\* says the wait for a conflicting lock timed out
FileLock_Lock(lk, pathName, owner, readOnly, err) ==
  LET p == File_FullPath(pathName)
      conflict == \E l \in lk : l.path = p /\ (l.excl \/ ~readOnly)
      tok == LockRec(p, owner, ~readOnly, TRUE)
  IN  IF err # 0 THEN [token |-> NULL, err |-> err, locks |-> lk]
      ELSE IF conflict THEN [token |-> NULL, err |-> 0, locks |-> lk]
      ELSE [token |-> {tok}, err |-> 0, locks |-> lk \cup {tok}]

\* FileLock_Unlock: removes the lock; when it fails the lock stays on disk
FileLock_Unlock(lk, token, ok) ==
  LET tok == CHOOSE t \in token : TRUE
  IN  IF ok THEN [ok |-> TRUE, locks |-> lk \ {tok}]
      ELSE [ok |-> FALSE,
            locks |-> (lk \ {tok}) \cup {[tok EXCEPT !.live = FALSE]}]

\* the call FileIO_Lock makes: FileLock_Lock with its readOnly argument
LockCall(readOnly) ==
  IF readOnly THEN "FileLock_Lock(readOnly)" ELSE "FileLock_Lock(exclusive)"

\* the switch of lines 292-308 without the case of EROFS
LockFailure_NoRofs(err) ==
  CASE err = 0 -> "FILEIO_LOCK_FAILED"
    [] err = ENAMETOOLONG -> "FILEIO_FILE_NAME_TOO_LONG"
    [] err = ENOENT -> "FILEIO_FILE_NOT_FOUND"
    [] err = EACCES -> "FILEIO_NO_PERMISSION"
    [] OTHER -> "FILEIO_ERROR"

\* FileIO_Lock, lines 274-310: the result for each reason of a missing token
LockFailure(err) ==
  CASE err \in {0, EROFS} -> "FILEIO_LOCK_FAILED"
    [] err = ENAMETOOLONG -> "FILEIO_FILE_NAME_TOO_LONG"
    [] err = ENOENT -> "FILEIO_FILE_NOT_FOUND"
    [] err = EACCES -> "FILEIO_NO_PERMISSION"
    [] OTHER -> "FILEIO_ERROR"

\* FileIO_Lock asking for a shared lock exactly when it should not
FileIO_Lock_Inverted(file, access, owner, lk, err) ==
  IF FILEIO_OPEN_LOCKED \in access
  THEN LET r == FileLock_Lock(lk, file.fileName, owner,
                              FILEIO_OPEN_ACCESS_WRITE \in access, err)
       IN  [file |-> [file EXCEPT !.lockToken = r.token],
            locks |-> r.locks,
            ret |-> IF r.token = NULL THEN LockFailure(r.err)
                    ELSE "FILEIO_SUCCESS",
            err |-> r.err,
            steps |-> <<LockCall(FILEIO_OPEN_ACCESS_WRITE \in access)>>]
  ELSE [file |-> file, locks |-> lk, ret |-> "FILEIO_SUCCESS", err |-> 0,
        steps |-> <<>>]

\* FileIO_Lock taking a missing token for a failure only when a reason is
\* reported
FileIO_Lock_FailOpen(file, access, owner, lk, err) ==
  IF FILEIO_OPEN_LOCKED \in access
  THEN LET r == FileLock_Lock(lk, file.fileName, owner,
                              FILEIO_OPEN_ACCESS_WRITE \notin access, err)
       IN  [file |-> [file EXCEPT !.lockToken = r.token],
            locks |-> r.locks,
            ret |-> IF r.token = NULL /\ r.err # 0 THEN LockFailure(r.err)
                    ELSE "FILEIO_SUCCESS",
            err |-> r.err,
            steps |-> <<LockCall(FILEIO_OPEN_ACCESS_WRITE \notin access)>>]
  ELSE [file |-> file, locks |-> lk, ret |-> "FILEIO_SUCCESS", err |-> 0,
        steps |-> <<>>]

\* FileIO_Lock removing the locks in its way when the wait times out
FileIO_Lock_Steals(file, access, owner, lk, err) ==
  IF FILEIO_OPEN_LOCKED \in access
  THEN LET r == FileLock_Lock(lk, file.fileName, owner,
                              FILEIO_OPEN_ACCESS_WRITE \notin access, err)
       IN  [file |-> [file EXCEPT !.lockToken = r.token],
            locks |-> IF r.token = NULL /\ r.err = 0
                      THEN {l \in r.locks :
                              l.path # File_FullPath(file.fileName)}
                      ELSE r.locks,
            ret |-> IF r.token = NULL THEN LockFailure(r.err)
                    ELSE "FILEIO_SUCCESS",
            err |-> r.err,
            steps |-> <<LockCall(FILEIO_OPEN_ACCESS_WRITE \notin access)>>]
  ELSE [file |-> file, locks |-> lk, ret |-> "FILEIO_SUCCESS", err |-> 0,
        steps |-> <<>>]

\* FileIO_Lock calling the primitive whatever the flags and the build
FileIO_Lock_Always(file, access, owner, lk, err) ==
  LET r == FileLock_Lock(lk, file.fileName, owner,
                         FILEIO_OPEN_ACCESS_WRITE \notin access, err)
  IN  [file |-> [file EXCEPT !.lockToken = r.token],
       locks |-> r.locks,
       ret |-> IF r.token = NULL THEN LockFailure(r.err)
               ELSE "FILEIO_SUCCESS",
       err |-> r.err,
       steps |-> <<LockCall(FILEIO_OPEN_ACCESS_WRITE \notin access)>>]

\* FileIO_Lock(file, access): the descriptor, the locks, the result, the
\* reason the primitive gave and the calls of the primitive; in a build
\* without file locks (line 273) nothing is done
FileIO_Lock(file, access, owner, lk, err) ==
  IF fileLocks /\ FILEIO_OPEN_LOCKED \in access
  THEN LET r == FileLock_Lock(lk, file.fileName, owner,
                              FILEIO_OPEN_ACCESS_WRITE \notin access, err)
       IN  [file |-> [file EXCEPT !.lockToken = r.token],
            locks |-> r.locks,
            ret |-> IF r.token = NULL THEN LockFailure(r.err)
                    ELSE "FILEIO_SUCCESS",
            err |-> r.err,
            steps |-> <<LockCall(FILEIO_OPEN_ACCESS_WRITE \notin access)>>]
  ELSE [file |-> file, locks |-> lk, ret |-> "FILEIO_SUCCESS", err |-> 0,
        steps |-> <<>>]

\* FileIO_Unlock keeping the token when the unlock has failed
FileIO_Unlock_KeepsToken(file, lk, unlockOK) ==
  IF file.lockToken # NULL
  THEN LET r == FileLock_Unlock(lk, file.lockToken, unlockOK)
       IN  [file |-> IF r.ok THEN [file EXCEPT !.lockToken = NULL] ELSE file,
            locks |-> r.locks,
            ret |-> IF r.ok THEN "FILEIO_SUCCESS" ELSE "FILEIO_ERROR",
            steps |-> <<"FileLock_Unlock">>]
  ELSE [file |-> file, locks |-> lk, ret |-> "FILEIO_SUCCESS", steps |-> <<>>]

\* FileIO_Unlock(file): the token is dropped whether or not the unlock
\* worked; in a build without file locks (line 343) nothing is done
FileIO_Unlock(file, lk, unlockOK) ==
  IF fileLocks /\ file.lockToken # NULL
  THEN LET r == FileLock_Unlock(lk, file.lockToken, unlockOK)
       IN  [file |-> [file EXCEPT !.lockToken = NULL],
            locks |-> r.locks,
            ret |-> IF r.ok THEN "FILEIO_SUCCESS" ELSE "FILEIO_ERROR",
            steps |-> <<"FileLock_Unlock">>]
  ELSE [file |-> file, locks |-> lk, ret |-> "FILEIO_SUCCESS", steps |-> <<>>]

----------------------------------------------------------------------------
(* Open, create, close, rename: the platform layer of the library *)

\* FileIO_Close: releases the lock token, then closes the platform handle
\* (an error when it is already -1 or when the close fails), and invalidates
\* the descriptor; err is the Bool it returns, TRUE for an error
FileIO_Close(file, lk, unlockOK, closeOK) ==
  LET u == FileIO_Unlock(file, lk, unlockOK)
  IN  [file |-> InvalidFD, locks |-> u.locks,
       err |-> file.posix = -1 \/ ~closeOK,
       steps |-> u.steps \o <<"close">>]

\* File_Unlink(path): 0 and the node gone, or an error and nothing changed
File_Unlink(f, path, unlinkOK) ==
  [fs |-> IF unlinkOK THEN [f EXCEPT ![File_FullPath(path)] = NoFile] ELSE f,
   err |-> ~unlinkOK]

\* FileIO_CloseAndUnlink calling File_Unlink whatever FileIO_Close returned
FileIO_CloseAndUnlink_Both(fd, f, lk, closeOK, unlinkOK) ==
  LET c == FileIO_Close(fd, lk, TRUE, closeOK)
      u == File_Unlink(f, fd.fileName, unlinkOK)
  IN  [file |-> c.file, locks |-> c.locks, fs |-> u.fs,
       ret |-> c.err \/ u.err,
       steps |-> <<"FileIO_Close", "File_Unlink">>]

\* FileIO_CloseAndUnlink(fd), line 469:
\* ret = FileIO_Close(fd) || File_Unlink(path), the unlink being called only
\* when the close returned FALSE
FileIO_CloseAndUnlink(fd, f, lk, closeOK, unlinkOK) ==
  LET c == FileIO_Close(fd, lk, TRUE, closeOK)
      u == File_Unlink(f, fd.fileName, unlinkOK)
  IN  IF c.err
      THEN [file |-> c.file, locks |-> c.locks, fs |-> f, ret |-> TRUE,
            steps |-> <<"FileIO_Close">>]
      ELSE [file |-> c.file, locks |-> c.locks, fs |-> u.fs, ret |-> u.err,
            steps |-> <<"FileIO_Close", "File_Unlink">>]

\* FileIO_Open(file, path, access, FILEIO_OPEN): locks when the access asks
\* for it, opens the existing file, and keeps the access as the flags; on
\* any failure the descriptor stays invalid and no lock is kept
FileIO_Open(path, access, owner, f, lk, lockErr, openOK) ==
  LET l == FileIO_Lock([InvalidFD EXCEPT !.fileName = path], access, owner,
                       lk, lockErr)
      there == f[File_FullPath(path)].exists
  IN  IF l.ret # "FILEIO_SUCCESS"
      THEN [file |-> InvalidFD, locks |-> lk, ret |-> l.ret]
      ELSE IF ~there \/ ~openOK
      THEN [file |-> InvalidFD,
            locks |-> FileIO_Unlock(l.file, l.locks, TRUE).locks,
            ret |-> IF there THEN "FILEIO_ERROR" ELSE "FILEIO_FILE_NOT_FOUND"]
      ELSE [file |-> [l.file EXCEPT !.posix = FdNum[owner], !.flags = access],
            locks |-> l.locks,
            ret |-> "FILEIO_SUCCESS"]

\* FileIO_Create(file, path, access, FILEIO_OPEN_CREATE, mode): opens the
\* file, creating it empty, owned by the process, when it does not exist
FileIO_Create(path, access, mode, owner, f, createOK) ==
  LET p == File_FullPath(path)
      node == IF f[p].exists THEN f[p]
              ELSE [exists |-> TRUE, content |-> 0, mode |-> Umask(mode),
                    uid |-> Creds.uid, gid |-> Creds.gid]
  IN  IF createOK
      THEN [file |-> [posix |-> FdNum[owner], flags |-> access,
                      fileName |-> path, lockToken |-> NULL],
            fs |-> [f EXCEPT ![p] = node],
            ret |-> "FILEIO_SUCCESS"]
      ELSE [file |-> InvalidFD, fs |-> f, ret |-> "FILEIO_ERROR"]

\* unlink(path): the node is gone; nothing happens when there is none
Unlink(f, path) == [f EXCEPT ![File_FullPath(path)] = NoFile]

\* one rename(from, to) of File_RenameRetry: atomically puts the node of
\* from at to; a failed attempt changes nothing
Rename(f, from, to) ==
  [f EXCEPT ![File_FullPath(to)] = f[File_FullPath(from)],
            ![File_FullPath(from)] = NoFile]

----------------------------------------------------------------------------
(* The sibling temporary file *)

\* FileIOAtomicTempPath: the full path of the file with "~" appended, or no
\* path when the full path cannot be resolved
FileIOAtomicTempPath(fileFD, resolveOK) ==
  IF resolveOK THEN File_FullPath(fileFD.fileName) \o "~" ELSE NoName

\* where FileIO_AtomicTempFile may fail
TempFailures == {"none", "fullpath", "fstat", "create", "chmod", "chown"}

\* the calls FileIO_AtomicTempFile makes on POSIX, in the order of lines
\* 648-685
TempSteps ==
  <<"FileIOAtomicTempPath", "fstat", "Posix_Unlink", "FileIO_Create",
    "fchmod", "fchown">>

\* how many of them are made, the failing one included, for a failure at
\* failAt
TempStepsMade(failAt) ==
  CASE failAt = "fullpath" -> 1
    [] failAt = "fstat" -> 2
    [] failAt = "create" -> 4
    [] failAt = "chmod" -> 5
    [] OTHER -> 6

\* line 663 without the unlink: a stale sibling stays for FileIO_Create
ATF_UnlinkStale_Skipped(f, tempPath) == f

\* line 663, Posix_Unlink(tempPath): the result is not looked at
ATF_UnlinkStale(f, tempPath) == Unlink(f, tempPath)

\* line 679 without the fchmod: the mode stays as FileIO_Create made it
ATF_Chmod_Skipped(f, tempPath, stbuf) == f

\* line 679, fchmod(tempFD->posix, stbuf.st_mode)
ATF_Chmod(f, tempPath, stbuf) == [f EXCEPT ![tempPath].mode = stbuf.mode]

\* line 685, fchown(tempFD->posix, stbuf.st_uid, stbuf.st_gid)
ATF_Chown(f, tempPath, stbuf) ==
  [f EXCEPT ![tempPath].uid = stbuf.uid, ![tempPath].gid = stbuf.gid]

\* lines 696-702 without the File_Unlink: the created file stays
ATF_Bail_NoUnlink(f, tempPath, tempFD) == f

\* bail, lines 696-702: a temporary descriptor that was created is closed
\* and its file unlinked
ATF_Bail(f, tempPath, tempFD) ==
  IF FileIO_IsValid(tempFD) THEN Unlink(f, tempPath) ELSE f

\* lines 696-702 without the FileIO_Close: the temporary descriptor stays open
ATF_BailFD_Open(tempFD) == tempFD

\* bail, lines 696-698: a temporary descriptor that is valid is closed with
\* FileIO_Close; it holds no lock token
ATF_BailFD(tempFD) ==
  IF FileIO_IsValid(tempFD)
  THEN FileIO_Close(tempFD, {}, TRUE, TRUE).file
  ELSE tempFD

\* FileIO_AtomicTempFile(fileFD, tempFD): the temporary descriptor, the file
\* system, the result and the calls made, for a failure at failAt
FileIO_AtomicTempFile(fileFD, f, failAt) ==
  LET tempPath == FileIOAtomicTempPath(fileFD, failAt # "fullpath")
      stbuf == f[File_FullPath(fileFD.fileName)]
      unlinked == ATF_UnlinkStale(f, tempPath)
      created == FileIO_Create(tempPath,
                               {FILEIO_OPEN_ACCESS_READ, FILEIO_OPEN_ACCESS_WRITE},
                               stbuf.mode, "new", unlinked, failAt # "create")
      chmodded == ATF_Chmod(created.fs, tempPath, stbuf)
      chowned == ATF_Chown(chmodded, tempPath, stbuf)
      steps == SubSeq(TempSteps, 1, TempStepsMade(failAt))
  IN  CASE failAt \in {"fullpath", "fstat"} ->
             [tempFD |-> ATF_BailFD(InvalidFD),
              fs |-> ATF_Bail(f, tempPath, InvalidFD),
              ret |-> FALSE, steps |-> steps]
        [] failAt = "create" ->
             [tempFD |-> ATF_BailFD(created.file),
              fs |-> ATF_Bail(created.fs, tempPath, created.file),
              ret |-> FALSE, steps |-> steps]
        [] failAt = "chmod" ->
             [tempFD |-> ATF_BailFD(created.file),
              fs |-> ATF_Bail(created.fs, tempPath, created.file),
              ret |-> FALSE, steps |-> steps]
        [] failAt = "chown" ->
             [tempFD |-> ATF_BailFD(created.file),
              fs |-> ATF_Bail(chmodded, tempPath, created.file),
              ret |-> FALSE, steps |-> steps]
        [] OTHER ->
             [tempFD |-> created.file, fs |-> chowned, ret |-> TRUE,
              steps |-> steps]

----------------------------------------------------------------------------
(* The removable device record, guestApp.c *)

\* sizeof (uint32), the size of a piece
SizeofUint32 == 4

\* uint16 offset wraps at 2^16
Uint16 == 2 ^ 16

\* sizeof *info of the records taken
InfoSizes == 1..MaxInfoSize

\* the 4-byte words the loop touches for a record of size bytes, the last
\* one reaching past the record when size is no multiple of 4
NWords(size) == (size + SizeofUint32 - 1) \div SizeofUint32

\* the offsets of the pieces of a record of size bytes
PieceOffsets(size) == {SizeofUint32 * i : i \in 0..(NWords(size) - 1)}

\* memory the caller has not written
Untouched == 0

\* bp.out.bx.word, the piece the host holds for the device at offset
HostWord(id, offset) == id + offset + 1

\* GuestAppGetDeviceListElement storing bp.out.bx.word whatever
\* bp.out.ax.word is
GuestAppGetDeviceListElement_AlwaysStores(id, offset, data, hostOK) ==
  [ret |-> hostOK, data |-> HostWord(id, offset)]

\* GuestAppGetDeviceListElement(id, offset, data), lines 697-713: one
\* backdoor call; *data is set only when bp.out.ax.word is not FALSE
GuestAppGetDeviceListElement(id, offset, data, hostOK) ==
  IF ~hostOK
  THEN [ret |-> FALSE, data |-> data]
  ELSE [ret |-> TRUE, data |-> HostWord(id, offset)]

\* no call of GuestApp_GetDeviceInfo
NoDev == [pc |-> "none", id |-> 0, size |-> 0, fails |-> {}, offset |-> 0,
          info |-> <<>>, fetches |-> <<>>, ret |-> FALSE]

----------------------------------------------------------------------------
(* The state *)

NoAx == [currPath |-> NoName, newPath |-> NoName, newAccess |-> {},
         currAccess |-> {}, ret |-> FALSE, attempts |-> 0, outcome |-> "none"]
NoPre == [fs |-> [p \in FullPaths |-> NoFile], locks |-> {},
          currFD |-> InvalidFD, newFD |-> InvalidFD]
NoCall == [op |-> "none", access |-> {}, ok |-> TRUE, status |-> "",
           err |-> 0, steps |-> <<>>]
NoRequest == [access |-> {}, ret |-> ""]

Snapshot == [fs |-> fs, locks |-> locks, currFD |-> currFD, newFD |-> newFD]
Returned(op, access, ok, status) ==
  [op |-> op, access |-> access, ok |-> ok, status |-> status,
   err |-> 0, steps |-> <<>>]

\* the original file exists, empty, and nothing is open
InitCaller ==
  /\ \E a \in OrigAttrs :
       fs = [p \in FullPaths |->
               IF p = "/d/cfg"
               THEN [exists |-> TRUE, content |-> 0, mode |-> a.mode,
                     uid |-> a.uid, gid |-> a.gid]
               ELSE NoFile]
  /\ locks = {}
  /\ currFD = InvalidFD
  /\ newFD = InvalidFD
  /\ otherFD = [posix |-> FdNum.other,
                flags |-> {FILEIO_OPEN_ACCESS_READ, FILEIO_OPEN_ACCESS_WRITE},
                fileName |-> "/d/cfg", lockToken |-> NULL]
  /\ hostVMK \in BOOLEAN
  /\ pc = "start"
  /\ ax = NoAx
  /\ pre = NoPre
  /\ last = NoCall
  /\ otherLast = NoRequest

\* a build with file locks
Init == InitCaller /\ fileLocks = TRUE /\ msg = NoMsg /\ dev = NoDev

----------------------------------------------------------------------------
(* The caller's calls other than FileIO_AtomicExchangeFiles *)

\* the caller opens the original file
Open(access, lockErr, openOK) ==
  /\ pc = "start"
  /\ LET r == FileIO_Open(OrigName, access, "curr", fs, locks, lockErr, openOK)
     IN  /\ currFD' = r.file
         /\ locks' = r.locks
         /\ last' = Returned("FileIO_Open", access, r.ret = "FILEIO_SUCCESS", r.ret)
  /\ pre' = Snapshot
  /\ pc' = "returned"
  /\ UNCHANGED <<fs, newFD, otherFD, hostVMK, fileLocks, ax, otherLast, msg, dev>>

\* the caller closes the original file
Close(unlockOK, closeOK) ==
  /\ pc = "idle"
  /\ FileIO_IsValid(currFD)
  /\ LET c == FileIO_Close(currFD, locks, unlockOK, closeOK)
     IN  /\ currFD' = c.file
         /\ locks' = c.locks
         /\ last' = [Returned("FileIO_Close", {}, ~c.err, "")
                        EXCEPT !.steps = c.steps]
  /\ pre' = Snapshot
  /\ pc' = "returned"
  /\ UNCHANGED <<fs, newFD, otherFD, hostVMK, fileLocks, ax, otherLast, msg, dev>>

\* the caller calls FileIO_Lock on the original's descriptor, which holds no
\* token (the function's ASSERT)
Lock(access, err) ==
  /\ pc = "idle"
  /\ FileIO_IsValid(currFD)
  /\ currFD.lockToken = NULL
  /\ LET r == FileIO_Lock(currFD, access, "curr", locks, err)
     IN  /\ currFD' = r.file
         /\ locks' = r.locks
         /\ last' = [Returned("FileIO_Lock", access, r.ret = "FILEIO_SUCCESS",
                               r.ret)
                        EXCEPT !.err = r.err, !.steps = r.steps]
  /\ pre' = Snapshot
  /\ pc' = "returned"
  /\ UNCHANGED <<fs, newFD, otherFD, hostVMK, fileLocks, ax, otherLast, msg, dev>>

\* the caller calls FileIO_Unlock on the original's descriptor
Unlock(unlockOK) ==
  /\ pc = "idle"
  /\ FileIO_IsValid(currFD)
  /\ LET r == FileIO_Unlock(currFD, locks, unlockOK)
     IN  /\ currFD' = r.file
         /\ locks' = r.locks
         /\ last' = [Returned("FileIO_Unlock", {}, r.ret = "FILEIO_SUCCESS",
                               r.ret)
                        EXCEPT !.steps = r.steps]
  /\ pre' = Snapshot
  /\ pc' = "returned"
  /\ UNCHANGED <<fs, newFD, otherFD, hostVMK, fileLocks, ax, otherLast, msg, dev>>

\* the caller calls FileIO_AtomicTempFile(currFD, newFD), having no
\* temporary file in another directory
AtomicTempFile(failAt) ==
  /\ pc = "idle"
  /\ ~fs[ElsewherePath].exists
  /\ FileIO_IsValid(currFD)
  /\ ~FileIO_IsValid(newFD)
  /\ LET r == FileIO_AtomicTempFile(currFD, fs, failAt)
     IN  /\ newFD' = r.tempFD
         /\ fs' = r.fs
         /\ last' = [Returned("FileIO_AtomicTempFile", {}, r.ret, failAt)
                        EXCEPT !.steps = r.steps]
  /\ pre' = Snapshot
  /\ pc' = "returned"
  /\ UNCHANGED <<locks, currFD, otherFD, hostVMK, fileLocks, ax, otherLast, msg, dev>>

\* the caller on ESX makes the new file in another directory than the
\* original's, with FileIO_Create, mode 0600; it keeps one temporary file at
\* a time
CreateElsewhere(createOK) ==
  /\ pc = "idle"
  /\ hostVMK
  /\ ~fs[File_FullPath(currFD.fileName) \o "~"].exists
  /\ FileIO_IsValid(currFD)
  /\ ~FileIO_IsValid(newFD)
  /\ LET r == FileIO_Create(ElsewherePath,
                            {FILEIO_OPEN_ACCESS_READ, FILEIO_OPEN_ACCESS_WRITE},
                            ElsewhereMode, "new", fs, createOK)
     IN  /\ newFD' = r.file
         /\ fs' = r.fs
         /\ last' = Returned("FileIO_Create", {}, r.ret = "FILEIO_SUCCESS",
                              r.ret)
  /\ pre' = Snapshot
  /\ pc' = "returned"
  /\ UNCHANGED <<locks, currFD, otherFD, hostVMK, fileLocks, ax, otherLast, msg, dev>>

\* the caller gives up the new file: FileIO_CloseAndUnlink(newFD)
CloseAndUnlink(closeOK, unlinkOK) ==
  /\ pc = "idle"
  /\ FileIO_IsValid(newFD)
  /\ LET r == FileIO_CloseAndUnlink(newFD, fs, locks, closeOK, unlinkOK)
     IN  /\ newFD' = r.file
         /\ locks' = r.locks
         /\ fs' = r.fs
         /\ last' = [Returned("FileIO_CloseAndUnlink", {}, ~r.ret,
                               IF ~closeOK THEN "close"
                               ELSE IF ~unlinkOK THEN "unlink" ELSE "none")
                        EXCEPT !.steps = r.steps]
  /\ pre' = Snapshot
  /\ pc' = "returned"
  /\ UNCHANGED <<currFD, otherFD, hostVMK, fileLocks, ax, otherLast, msg, dev>>

\* the caller writes the new content into the temporary file
Write(c) ==
  /\ pc = "idle"
  /\ FileIO_IsValid(newFD)
  /\ fs' = [fs EXCEPT ![File_FullPath(newFD.fileName)].content = c]
  /\ UNCHANGED <<locks, currFD, newFD, otherFD, hostVMK, fileLocks, pc, ax, pre, last,
                 otherLast, msg, dev>>

\* the caller goes on after a call has returned
Return ==
  /\ pc = "returned"
  /\ pc' = IF FileIO_IsValid(currFD) THEN "idle" ELSE "start"
  /\ ax' = NoAx
  /\ pre' = NoPre
  /\ last' = NoCall
  /\ UNCHANGED <<fs, locks, currFD, newFD, otherFD, hostVMK, fileLocks, otherLast, msg, dev>>

----------------------------------------------------------------------------
(* FileIO_AtomicExchangeFiles(newFD, currFD) *)

\* how one rename of File_RenameRetry may end: done, the destination is
\* busy for the moment, or an error no retry helps
RenameOutcomes == {"ok", "busy", "fail"}

\* how the swap on ESX may end
SwapOutcomes == {"ok", "srcTooLong", "dstTooLong", "openFail", "ioctlFail"}

\* IOCTLCMD_VMFS_SWAP_FILES: the two files exchange their contents, each
\* path keeps its node
SwapFiles(f, src, dst) ==
  [f EXCEPT ![File_FullPath(src)].content = f[File_FullPath(dst)].content,
            ![File_FullPath(dst)].content = f[File_FullPath(src)].content]

\* the calls the swap branch makes before it returns: none when a name is
\* too long, the open of the directory, the ioctl on it, its close
VmkSteps(outcome) ==
  CASE outcome \in {"srcTooLong", "dstTooLong"} -> <<>>
    [] outcome = "openFail" -> <<"Posix_Open">>
    [] OTHER -> <<"Posix_Open", "ioctl", "close">>

\* line 763, ASSERT(!strcmp(dirName, dstDirName)): whether the swap branch
\* goes on, in a build with assertions and in one without
VmkSameDirAsserted(assertions) ==
  assertions =>
    DirOf(File_FullPath(newFD.fileName)) = DirOf(File_FullPath(currFD.fileName))

\* the swap branch closing the new descriptor as the rename branch does
AX_VmkNewAfter_Closed == InvalidFD

\* lines 741-808: the swap branch writes to neither descriptor
AX_VmkNewAfter == newFD

\* the swap that overwrites the new file and leaves the original as it was
AX_VmkSwap_OneWay(outcome, assertions) ==
  /\ pc = "idle"
  /\ hostVMK
  /\ FileIO_IsValid(newFD)
  /\ FileIO_IsValid(currFD)
  /\ IF VmkSameDirAsserted(assertions)
     THEN /\ fs' = IF outcome = "ok"
                   THEN [fs EXCEPT ![File_FullPath(newFD.fileName)].content =
                                     fs[File_FullPath(currFD.fileName)].content]
                   ELSE fs
          /\ last' = [Returned("FileIO_AtomicExchangeFiles", {},
                                outcome = "ok", "")
                         EXCEPT !.steps = VmkSteps(outcome)]
          /\ pc' = "returned"
     ELSE /\ fs' = fs
          /\ last' = Returned("FileIO_AtomicExchangeFiles", {}, FALSE, "ASSERT")
          /\ pc' = "assert"
  /\ newFD' = AX_VmkNewAfter
  /\ pre' = Snapshot
  /\ UNCHANGED <<locks, currFD, otherFD, hostVMK, fileLocks, ax, otherLast, msg, dev>>

\* lines 741-812, on ESX: the swap through the directory of the new file;
\* neither descriptor is touched, and a build with assertions stops at line
\* 763 when the two files are in different directories
AX_VmkSwap(outcome, assertions) ==
  /\ pc = "idle"
  /\ hostVMK
  /\ FileIO_IsValid(newFD)
  /\ FileIO_IsValid(currFD)
  /\ IF VmkSameDirAsserted(assertions)
     THEN /\ fs' = IF outcome = "ok"
                   THEN SwapFiles(fs, newFD.fileName, currFD.fileName)
                   ELSE fs
          /\ last' = [Returned("FileIO_AtomicExchangeFiles", {},
                                outcome = "ok", "")
                         EXCEPT !.steps = VmkSteps(outcome)]
          /\ pc' = "returned"
     ELSE /\ fs' = fs
          /\ last' = Returned("FileIO_AtomicExchangeFiles", {}, FALSE, "ASSERT")
          /\ pc' = "assert"
  /\ newFD' = AX_VmkNewAfter
  /\ pre' = Snapshot
  /\ UNCHANGED <<locks, currFD, otherFD, hostVMK, fileLocks, ax, otherLast, msg, dev>>

\* the calls the rename branch makes, in the order of lines 820-855
AXSteps ==
  <<"FileIO_Close(newFD)", "close(currFD->posix)", "File_RenameRetry",
    "FileIO_Close(currFD)", "FileIO_Open(currFD)">>

\* lines 814-820: the paths and flags are kept, newFD is closed
AX_Begin ==
  /\ pc = "idle"
  /\ ~hostVMK
  /\ FileIO_IsValid(newFD)
  /\ FileIO_IsValid(currFD)
  /\ ax' = [currPath |-> currFD.fileName, newPath |-> newFD.fileName,
            newAccess |-> newFD.flags, currAccess |-> currFD.flags,
            ret |-> FALSE, attempts |-> 0, outcome |-> "none"]
  /\ LET c == FileIO_Close(newFD, locks, TRUE, TRUE)
     IN  /\ newFD' = c.file
         /\ locks' = c.locks
  /\ last' = [Returned("FileIO_AtomicExchangeFiles", {}, FALSE, "")
                 EXCEPT !.steps = <<"FileIO_Close(newFD)">>]
  /\ pre' = Snapshot
  /\ pc' = "ax_nativeclose"
  /\ UNCHANGED <<fs, currFD, otherFD, hostVMK, fileLocks, otherLast, msg, dev>>

\* lines 836-837 done with FileIO_Close: the lock is dropped with the handle
AX_NativeClose_DropsLock ==
  /\ pc = "ax_nativeclose"
  /\ LET u == FileIO_Unlock(currFD, locks, TRUE)
     IN  /\ currFD' = [u.file EXCEPT !.posix = -1]
         /\ locks' = u.locks
  /\ last' = [last EXCEPT !.steps = Append(@, "close(currFD->posix)")]
  /\ pc' = "ax_rename"
  /\ UNCHANGED <<fs, newFD, otherFD, hostVMK, fileLocks, ax, pre, otherLast,
                 msg, dev>>

\* lines 836-837: close(currFD->posix); currFD->posix = -1; the lock token
\* stays
AX_NativeClose ==
  /\ pc = "ax_nativeclose"
  /\ currFD' = [currFD EXCEPT !.posix = -1]
  /\ last' = [last EXCEPT !.steps = Append(@, "close(currFD->posix)")]
  /\ pc' = "ax_rename"
  /\ UNCHANGED <<fs, locks, newFD, otherFD, hostVMK, fileLocks, ax, pre,
                 otherLast, msg, dev>>

\* File_RenameRetry(from, to, retries): whether it returns after an attempt
\* that ended with outcome, attempts having been made before it; it retries
\* only a busy destination, and only while the budget lasts
RenameRetryReturns(attempts, outcome, retries) ==
  ~(outcome = "busy" /\ attempts + 1 < retries)

\* the rename with its arguments exchanged
AX_RenameFs_Swapped(outcome) ==
  IF outcome = "ok" THEN Rename(fs, ax.currPath, ax.newPath) ELSE fs

\* line 839: the file system after one attempt of
\* File_RenameRetry(newPath, currPath, 10)
AX_RenameFs(outcome) ==
  IF outcome = "ok" THEN Rename(fs, ax.newPath, ax.currPath) ELSE fs

\* the result of File_RenameRetry ignored
AX_RenameRet_Ignored(outcome) == TRUE

\* lines 839-843: ret = TRUE only when File_RenameRetry returned 0
AX_RenameRet(outcome) == outcome = "ok"

\* a failed rename returning at once, without the reopen
AX_AfterRename_EarlyReturn(outcome) ==
  IF outcome = "ok" THEN "ax_bail" ELSE "returned"

\* lines 839-845: where the function goes when File_RenameRetry has returned;
\* failure and success both go on at bail
AX_AfterRename(outcome) == "ax_bail"

\* lines 839-843: File_RenameRetry(newPath, currPath, 10), one attempt at a
\* time
AX_Rename(outcome) ==
  /\ pc = "ax_rename"
  /\ fs' = AX_RenameFs(outcome)
  /\ ax' = [ax EXCEPT !.attempts = @ + 1, !.ret = AX_RenameRet(outcome),
                      !.outcome = outcome]
  /\ pc' = IF RenameRetryReturns(ax.attempts, outcome, RenameRetries)
           THEN AX_AfterRename(outcome) ELSE "ax_rename"
  /\ last' = IF ax.attempts = 0
             THEN [last EXCEPT !.steps = Append(@, "File_RenameRetry")]
             ELSE last
  /\ UNCHANGED <<locks, currFD, newFD, otherFD, hostVMK, fileLocks, pre,
                 otherLast, msg, dev>>

\* line 853 invalidating the descriptor without releasing its token
AX_CloseCurr_NoUnlock(unlockOK) ==
  /\ pc = "ax_bail"
  /\ currFD' = InvalidFD
  /\ last' = [last EXCEPT !.steps = Append(@, "FileIO_Close(currFD)")]
  /\ pc' = "ax_reopen"
  /\ UNCHANGED <<fs, locks, newFD, otherFD, hostVMK, fileLocks, ax, pre,
                 otherLast, msg, dev>>

\* line 853 left out: the descriptor goes to the reopen as the rename left it
AX_CloseCurr_Skipped(unlockOK) ==
  /\ pc = "ax_bail"
  /\ last' = [last EXCEPT !.steps = Append(@, "FileIO_Close(currFD)")]
  /\ pc' = "ax_reopen"
  /\ UNCHANGED <<fs, locks, currFD, newFD, otherFD, hostVMK, fileLocks, ax, pre,
                 otherLast, msg, dev>>

\* line 853: FileIO_Close(currFD), which drops the lock
AX_CloseCurr(unlockOK) ==
  /\ pc = "ax_bail"
  /\ LET c == FileIO_Close(currFD, locks, unlockOK, TRUE)
     IN  /\ currFD' = c.file
         /\ locks' = c.locks
  /\ last' = [last EXCEPT !.steps = Append(@, "FileIO_Close(currFD)")]
  /\ pc' = "ax_reopen"
  /\ UNCHANGED <<fs, newFD, otherFD, hostVMK, fileLocks, ax, pre, otherLast,
                 msg, dev>>

\* the original reopened with the flags of the new file
AX_ReopenAccess_New == ax.newAccess

\* the original reopened without its lock flag
AX_ReopenAccess_NoLock == ax.currAccess \ {FILEIO_OPEN_LOCKED}

\* line 855: the access the original is reopened with
AX_ReopenAccess == ax.currAccess

\* a failed reopen that is not checked
AX_AfterReopen_NoPanic(status) == "returned"

\* lines 856-862: Panic when the reopen failed, else return ret
AX_AfterReopen(status) ==
  IF status = "FILEIO_SUCCESS" THEN "returned" ELSE "panic"

\* lines 855-862: FileIO_Open(currFD, currPath, currAccess, 0)
AX_Reopen(lockErr, openOK) ==
  /\ pc = "ax_reopen"
  /\ LET r == FileIO_Open(ax.currPath, AX_ReopenAccess, "curr", fs, locks,
                          lockErr, openOK)
     IN  /\ currFD' = r.file
         /\ locks' = r.locks
         /\ pc' = AX_AfterReopen(r.ret)
         /\ last' = [last EXCEPT !.ok = ax.ret, !.status = r.ret,
                                  !.steps = Append(@, "FileIO_Open(currFD)")]
  /\ UNCHANGED <<fs, newFD, otherFD, hostVMK, fileLocks, ax, pre, otherLast, msg, dev>>

----------------------------------------------------------------------------
(* The second process: its own descriptor on the original's path, opened  *)
(* without a lock, on which it calls FileIO_Lock and FileIO_Unlock         *)

OtherAccess == {a \in AccessChoices : FILEIO_OPEN_LOCKED \in a}

OtherLock(access) ==
  /\ otherFD.lockToken = NULL
  /\ LET r == FileIO_Lock(otherFD, access, "other", locks, 0)
     IN  /\ otherFD' = r.file
         /\ locks' = r.locks
         /\ otherLast' = [access |-> access, ret |-> r.ret]
  /\ UNCHANGED <<fs, currFD, newFD, hostVMK, fileLocks, pc, ax, pre, last, msg, dev>>

OtherUnlock ==
  /\ otherFD.lockToken # NULL
  /\ LET r == FileIO_Unlock(otherFD, locks, TRUE)
     IN  /\ otherFD' = r.file
         /\ locks' = r.locks
         /\ otherLast' = NoRequest
  /\ UNCHANGED <<fs, currFD, newFD, hostVMK, fileLocks, pc, ax, pre, last, msg, dev>>

----------------------------------------------------------------------------
Next ==
  \/ \E a \in AccessChoices, e \in LockErrs, ok \in BOOLEAN : Open(a, e, ok)
  \/ \E unlockOK, closeOK \in BOOLEAN : Close(unlockOK, closeOK)
  \/ \E closeOK, unlinkOK \in BOOLEAN : CloseAndUnlink(closeOK, unlinkOK)
  \/ \E a \in AccessChoices, e \in LockErrs : Lock(a, e)
  \/ \E ok \in BOOLEAN : Unlock(ok)
  \/ \E f \in TempFailures : AtomicTempFile(f)
  \/ \E c \in 1..MaxContent : Write(c)
  \/ \E ok \in BOOLEAN : CreateElsewhere(ok)
  \/ \E o \in SwapOutcomes, assertions \in BOOLEAN : AX_VmkSwap(o, assertions)
  \/ AX_Begin
  \/ AX_NativeClose
  \/ \E o \in RenameOutcomes : AX_Rename(o)
  \/ \E ok \in BOOLEAN : AX_CloseCurr(ok)
  \/ \E e \in LockErrs, ok \in BOOLEAN : AX_Reopen(e, ok)
  \/ Return
  \/ \E a \in OtherAccess : OtherLock(a)
  \/ OtherUnlock

Spec == Init /\ [][Next]_vars

----------------------------------------------------------------------------
(* The same caller in every build: with file locks and, on a host that is  *)
(* not ESX, without them (FreeBSD, Solaris)                                 *)

BuildsInit ==
  /\ InitCaller
  /\ fileLocks \in BOOLEAN
  /\ hostVMK => fileLocks
  /\ msg = NoMsg
  /\ dev = NoDev

BuildsSpec == BuildsInit /\ [][Next]_vars

----------------------------------------------------------------------------
(* FileIO_MsgError on its own: every value in every build *)

MsgInit ==
  /\ InitCaller
  /\ fileLocks = TRUE
  /\ msg \in [status : StatusValues, assertions : BOOLEAN,
               outcome : {"none"}, result : {""}]
  /\ dev = NoDev

\* the caller calls FileIO_MsgError(status)
MsgError ==
  /\ msg.outcome = "none"
  /\ LET r == FileIO_MsgError(msg.status, msg.assertions)
     IN  msg' = [msg EXCEPT !.outcome = r.outcome, !.result = r.result]
  /\ UNCHANGED <<fs, locks, currFD, newFD, otherFD, hostVMK, fileLocks, pc, ax,
                 pre, last, otherLast, dev>>

MsgNext == MsgError

MsgSpec == MsgInit /\ [][MsgNext]_vars

----------------------------------------------------------------------------
(* GuestApp_GetDeviceInfo on its own: every record size, every host *)

\* GuestApp_GetDeviceInfo(id, info) is entered, offset = 0 and p = info
\* (line 745); the host refuses the offsets of fails
DevInit ==
  /\ InitCaller
  /\ fileLocks = TRUE
  /\ msg = NoMsg
  /\ \E id \in 0..MaxDeviceId, size \in InfoSizes,
        fails \in SUBSET PieceOffsets(MaxInfoSize) :
        dev = [pc |-> "loop", id |-> id, size |-> size, fails |-> fails,
               offset |-> 0, info |-> [i \in 1..NWords(size) |-> Untouched],
               fetches |-> <<>>, ret |-> FALSE]

\* lines 748-750 and 747: FALSE is returned at once when the piece was
\* refused, else offset += sizeof (uint32), p++
GDI_AfterFetch(d, r) ==
  IF r.ret = FALSE
  THEN [d EXCEPT !.pc = "returned", !.ret = FALSE]
  ELSE [d EXCEPT !.offset = (d.offset + SizeofUint32) % Uint16]

\* one turn of the loop, lines 746-750: offset < sizeof *info, and
\* GuestAppGetDeviceListElement(id, offset, p)
GDI_Fetch ==
  /\ dev.pc = "loop"
  /\ dev.offset < dev.size
  /\ LET w == dev.offset \div SizeofUint32 + 1
         r == GuestAppGetDeviceListElement(dev.id, dev.offset, dev.info[w],
                                           dev.offset \notin dev.fails)
         fetched == [dev EXCEPT !.fetches = Append(@, dev.offset),
                                !.info[w] = r.data]
     IN  dev' = GDI_AfterFetch(fetched, r)
  /\ UNCHANGED <<fs, locks, currFD, newFD, otherFD, hostVMK, fileLocks, pc, ax,
                 pre, last, otherLast, msg>>

\* the loop ends, line 753: return TRUE
GDI_Done ==
  /\ dev.pc = "loop"
  /\ ~(dev.offset < dev.size)
  /\ dev' = [dev EXCEPT !.pc = "returned", !.ret = TRUE]
  /\ UNCHANGED <<fs, locks, currFD, newFD, otherFD, hostVMK, fileLocks, pc, ax,
                 pre, last, otherLast, msg>>

DevNext == GDI_Fetch \/ GDI_Done

DevSpec == DevInit /\ [][DevNext]_vars

----------------------------------------------------------------------------
(* Properties of FileIO_AtomicExchangeFiles and of the lock *)

PathOf(fd) == File_FullPath(fd.fileName)

\* FileIO_AtomicExchangeFiles has returned to the caller
AXReturned == pc = "returned" /\ last.op = "FileIO_AtomicExchangeFiles"

\* the rename-based FileIO_AtomicExchangeFiles is between its first and its
\* last statement
AXRunning == pc \in {"ax_nativeclose", "ax_rename", "ax_bail", "ax_reopen"}

\* the original's descriptor held a lock token when the call began
HeldBefore == pre.currFD.lockToken # NULL

\* C1: when FileIO_AtomicExchangeFiles returns TRUE, by rename or by swap,
\* the content at the original's path is the content the file at the new
\* descriptor's path held when the call began
C1_ContentRoundTrip ==
  (AXReturned /\ last.ok) =>
     fs[PathOf(pre.currFD)].content = pre.fs[PathOf(pre.newFD)].content

\* a rename-based call has returned TRUE and replaced content 0 by content 1
C1_Witness ==
  /\ AXReturned /\ last.ok /\ ~hostVMK
  /\ pre.fs[PathOf(pre.currFD)].content = 0
  /\ pre.fs[PathOf(pre.newFD)].content = 1
  /\ fs[PathOf(pre.currFD)].content = 1

\* C2 as stated: after every successful call, under both strategies, a file
\* node is at the original's path and none is at the sibling path
C2_AsStated ==
  (AXReturned /\ last.ok) =>
     /\ fs[PathOf(pre.currFD)].exists
     /\ ~fs[PathOf(pre.currFD) \o "~"].exists

\* C2, amended: after a successful call a file node is at the original's
\* path; after a rename-based one no node is at the new descriptor's path
\* (the sibling path), after a swap the node at that path is still there and
\* holds the original's former content
C2_NodesAfterSuccess ==
  (AXReturned /\ last.ok) =>
     /\ fs[PathOf(pre.currFD)].exists
     /\ ~hostVMK => ~fs[PathOf(pre.newFD)].exists
     /\ hostVMK =>
          /\ fs[PathOf(pre.newFD)].exists
          /\ fs[PathOf(pre.newFD)].content = pre.fs[PathOf(pre.currFD)].content

\* a swap has returned TRUE and the sibling holds the former content
C2_Witness ==
  /\ AXReturned /\ last.ok /\ hostVMK
  /\ fs["/d/cfg~"].exists
  /\ fs["/d/cfg~"].content = 0
  /\ fs["/d/cfg"].content = 1

\* C3: whenever the rename-based call returns, TRUE or FALSE, the original's
\* descriptor is valid and has the name and the flags it had before the call
C3_ReopenedAsBefore ==
  (AXReturned /\ ~hostVMK) =>
     /\ FileIO_IsValid(currFD)
     /\ currFD.fileName = pre.currFD.fileName
     /\ currFD.flags = pre.currFD.flags

\* a rename-based call on a read-only, locked original has returned FALSE
C3_Witness ==
  /\ AXReturned /\ ~hostVMK /\ ~last.ok
  /\ pre.currFD.flags = {FILEIO_OPEN_ACCESS_READ, FILEIO_OPEN_LOCKED}
  /\ currFD.flags = pre.currFD.flags

\* C4 as stated: while a rename-based call runs on an original whose
\* exclusive lock the caller held when the call began, the second process
\* holds no lock on the original's path
C4_LockHeldAcrossCall ==
  (AXRunning /\ HeldBefore /\ \A t \in pre.currFD.lockToken : t.excl) =>
     ~\E l \in locks : l.owner = "other" /\ l.path = PathOf(pre.currFD)

\* C5 as stated: after a successful call on a descriptor that was opened
\* with locking and held its lock, the descriptor holds a token again and no
\* other process holds a lock on the path
C5_AsStated ==
  (AXReturned /\ last.ok /\ HeldBefore
     /\ FILEIO_OPEN_LOCKED \in pre.currFD.flags) =>
     /\ currFD.lockToken # NULL
     /\ \A t \in currFD.lockToken :
          /\ t.path = PathOf(pre.currFD)
          /\ t \in locks
          /\ \A l \in locks : l.path = t.path => l.owner = "curr"

\* C5, amended: the descriptor holds a token again, for the same path (after
\* a rename-based call of the kind its flags ask for, after a swap the very
\* token it held), and no other process holds a conflicting lock: none at
\* all when the lock is exclusive, shared ones only when it is shared
C5_RelockedSameOwner ==
  (AXReturned /\ last.ok /\ HeldBefore
     /\ FILEIO_OPEN_LOCKED \in pre.currFD.flags) =>
     /\ currFD.lockToken # NULL
     /\ \A t \in currFD.lockToken :
          /\ t.path = PathOf(pre.currFD)
          /\ t.owner = "curr"
          /\ t \in locks
          /\ ~hostVMK => t.excl = (FILEIO_OPEN_ACCESS_WRITE \in pre.currFD.flags)
          /\ hostVMK => currFD.lockToken = pre.currFD.lockToken
          /\ \A l \in locks :
               (l.path = t.path /\ l.owner # "curr") => (~l.excl /\ ~t.excl)

\* a rename-based call on an exclusively locked original has returned TRUE
\* with the lock held again, after the second process asked for the lock
\* and was refused
C5_Witness ==
  /\ AXReturned /\ last.ok /\ ~hostVMK /\ HeldBefore
  /\ FILEIO_OPEN_LOCKED \in pre.currFD.flags
  /\ FILEIO_OPEN_ACCESS_WRITE \in pre.currFD.flags
  /\ currFD.lockToken # NULL
  /\ otherLast.ret = "FILEIO_LOCK_FAILED"

\* C6: the two descriptors on the same path never both hold a token when
\* one of them asked for it with write access; the second process gets its
\* token with FILEIO_SUCCESS and is otherwise left with FILEIO_LOCK_FAILED
C6_ExclusiveLockExcludes ==
  /\ (otherFD.lockToken # NULL
        /\ FILEIO_OPEN_ACCESS_WRITE \in otherLast.access) =>
       currFD.lockToken = NULL
  /\ \A t \in currFD.lockToken : t.excl => otherFD.lockToken = NULL
  /\ otherFD.lockToken # NULL => otherLast.ret = "FILEIO_SUCCESS"
  /\ (otherFD.lockToken = NULL /\ otherLast # NoRequest) =>
       otherLast.ret = "FILEIO_LOCK_FAILED"

\* the second process holds the exclusive lock and the caller's FileIO_Lock
\* with write access has returned FILEIO_LOCK_FAILED without a token
C6_Witness ==
  /\ pc = "returned" /\ last.op = "FileIO_Lock"
  /\ FILEIO_OPEN_ACCESS_WRITE \in last.access
  /\ FILEIO_OPEN_LOCKED \in last.access
  /\ last.status = "FILEIO_LOCK_FAILED"
  /\ currFD.lockToken = NULL
  /\ otherFD.lockToken # NULL
  /\ FILEIO_OPEN_ACCESS_WRITE \in otherLast.access

\* C7: from the first statement of a rename-based call to its return or its
\* Panic, a file node is at the original's path, and it holds the old or
\* the new content
C7_OriginalAlwaysThere ==
  (AXRunning \/ (AXReturned /\ ~hostVMK) \/ pc = "panic") =>
     /\ fs[PathOf(pre.currFD)].exists
     /\ fs[PathOf(pre.currFD)].content \in
          {pre.fs[PathOf(pre.currFD)].content, pre.fs[PathOf(pre.newFD)].content}

\* all ten attempts have failed busy, and the original is about to be
\* reopened
C7_Witness ==
  /\ pc = "ax_bail" /\ ax.attempts = 10 /\ ax.outcome = "busy"
  /\ fs[PathOf(pre.currFD)].exists

\* C8: the rename is tried at most 10 times; a call that returns gives TRUE
\* exactly when an attempt succeeded, and a busy destination makes it return
\* FALSE only after the 10th attempt
C8_RetryBudget ==
  /\ ax.attempts <= 10
  /\ (pc = "ax_rename" /\ ax.attempts > 0) =>
       (ax.outcome = "busy" /\ ax.attempts < 10)
  /\ (AXReturned /\ ~hostVMK) =>
       /\ ax.attempts >= 1
       /\ last.ok = (ax.outcome = "ok")
       /\ last.ok = ~fs[PathOf(pre.newFD)].exists
       /\ ax.outcome = "busy" => (ax.attempts = 10 /\ ~last.ok)

\* a call has returned TRUE after nine busy attempts and a tenth that
\* succeeded
C8_Witness ==
  AXReturned /\ ~hostVMK /\ last.ok /\ ax.attempts = 10 /\ ax.outcome = "ok"

\* C9: when the rename has failed and the call returns, it returns FALSE,
\* the original's descriptor is valid again with its name and flags, and the
\* file at the original's path is what it was before the call
C9_FailedRenameUnwound ==
  (AXReturned /\ ~hostVMK /\ ax.outcome # "ok") =>
     /\ ~last.ok
     /\ FileIO_IsValid(currFD)
     /\ currFD.fileName = pre.currFD.fileName
     /\ currFD.flags = pre.currFD.flags
     /\ fs[PathOf(pre.currFD)] = pre.fs[PathOf(pre.currFD)]

\* a call whose rename failed at once has returned FALSE, the temporary
\* file's content being another than the original's
C9_Witness ==
  /\ AXReturned /\ ~hostVMK /\ ax.outcome = "fail" /\ ~last.ok
  /\ FileIO_IsValid(currFD)
  /\ pre.fs[PathOf(pre.newFD)].content # fs[PathOf(pre.currFD)].content

\* C10: FileIO_AtomicExchangeFiles never returns with the original's
\* descriptor invalid; a failed reopen ends in Panic, after a successful
\* rename as after a failed one
C10_NeverReturnsInvalid ==
  /\ AXReturned => FileIO_IsValid(currFD)
  /\ (AXReturned /\ ~hostVMK) => last.status = "FILEIO_SUCCESS"
  /\ pc = "panic" =>
       (~FileIO_IsValid(currFD) /\ last.status # "FILEIO_SUCCESS")

\* the rename has succeeded, the reopen has failed, and the call has ended
\* in Panic
C10_Witness ==
  pc = "panic" /\ ax.ret /\ ~FileIO_IsValid(currFD)

----------------------------------------------------------------------------
(* The temporary file: FileIO_AtomicTempFile and the failed exchange *)

\* FileIO_AtomicTempFile has returned to the caller
ATFReturned == pc = "returned" /\ last.op = "FileIO_AtomicTempFile"

\* the sibling path of the original: its full path with "~" appended
SiblingPath == PathOf(pre.currFD) \o "~"

\* C11: after a rename-based FileIO_AtomicExchangeFiles that returns FALSE
\* no file node remains at the path of the new descriptor
C11_TempNodeReleased ==
  (AXReturned /\ ~hostVMK /\ ~last.ok) =>
     ~fs[PathOf(pre.newFD)].exists

InTempOrder(steps) ==
  /\ Len(steps) <= Len(TempSteps)
  /\ steps = SubSeq(TempSteps, 1, Len(steps))

\* C14: FileIO_AtomicTempFile makes its calls in the order fstat, unlink,
\* create, fchmod, fchown, and on every TRUE return the sibling's permission
\* bits, owner and group are those of the original
C14_AttributesCopied ==
  ATFReturned =>
     /\ InTempOrder(last.steps)
     /\ last.ok =>
          /\ last.steps = TempSteps
          /\ fs[SiblingPath].mode = pre.fs[PathOf(pre.currFD)].mode
          /\ fs[SiblingPath].uid = pre.fs[PathOf(pre.currFD)].uid
          /\ fs[SiblingPath].gid = pre.fs[PathOf(pre.currFD)].gid

\* the call has returned TRUE for an original whose mode the umask would
\* have cut and whose owner is another than the process
C14_Witness ==
  /\ ATFReturned /\ last.ok
  /\ fs[SiblingPath].mode # Umask(fs[SiblingPath].mode)
  /\ fs[SiblingPath].uid # Creds.uid
  /\ fs[SiblingPath].mode = fs[PathOf(currFD)].mode

----------------------------------------------------------------------------
(* The lock manager: FileIO_Lock and FileIO_Unlock *)

\* FileIO_Lock, FileIO_Unlock have returned to the caller
LockReturned == pc = "returned" /\ last.op = "FileIO_Lock"
UnlockReturned == pc = "returned" /\ last.op = "FileIO_Unlock"

\* FileIO_Lock was asked to lock and the primitive gave no token
NoTokenGiven ==
  /\ LockReturned
  /\ FILEIO_OPEN_LOCKED \in last.access
  /\ currFD.lockToken = NULL

\* the locks on disk taken through the descriptor of owner
LocksOf(lk, owner) == {l \in lk : l.owner = owner}

\* C15: when FileIO_Lock is asked to lock and gets no token, the result is
\* FILEIO_LOCK_FAILED for the reasons 0 and EROFS, FILEIO_FILE_NAME_TOO_LONG
\* for ENAMETOOLONG, FILEIO_FILE_NOT_FOUND for ENOENT, FILEIO_NO_PERMISSION
\* for EACCES and FILEIO_ERROR for every other reason
C15_LockErrorTable ==
  NoTokenGiven =>
     /\ last.err \in {0, EROFS} => last.status = "FILEIO_LOCK_FAILED"
     /\ last.err = ENAMETOOLONG => last.status = "FILEIO_FILE_NAME_TOO_LONG"
     /\ last.err = ENOENT => last.status = "FILEIO_FILE_NOT_FOUND"
     /\ last.err = EACCES => last.status = "FILEIO_NO_PERMISSION"
     /\ last.err \notin {0, EROFS, ENAMETOOLONG, ENOENT, EACCES} =>
          last.status = "FILEIO_ERROR"

\* the primitive has reported a read-only file system
C15_Witness ==
  NoTokenGiven /\ last.err = EROFS /\ last.status = "FILEIO_LOCK_FAILED"

C17_FailedLockChangesNothing ==
  /\ (NoTokenGiven /\ last.err = 0) =>
       /\ last.status = "FILEIO_LOCK_FAILED"
       /\ currFD = pre.currFD
       /\ newFD = pre.newFD
       /\ fs = pre.fs
       /\ LocksOf(locks, "curr") = LocksOf(pre.locks, "curr")
  /\ otherFD.lockToken \subseteq locks

\* the caller's lock has failed against the lock the other process holds
C17_Witness ==
  /\ NoTokenGiven /\ last.err = 0
  /\ otherFD.lockToken # NULL
  /\ otherFD.lockToken \subseteq locks
  /\ otherFD.lockToken \subseteq pre.locks

\* C18: FileIO_Unlock on a descriptor with no token returns FILEIO_SUCCESS,
\* changes nothing and does not call FileLock_Unlock; on a descriptor with a
\* token it calls FileLock_Unlock once; and it always leaves the descriptor
\* with no token, so that a second call is one on a descriptor with no token
C18_UnlockIdempotent ==
  UnlockReturned =>
     /\ currFD.lockToken = NULL
     /\ pre.currFD.lockToken = NULL =>
          /\ last.status = "FILEIO_SUCCESS"
          /\ last.steps = <<>>
          /\ currFD = pre.currFD
          /\ fs = pre.fs
          /\ LocksOf(locks, "curr") = LocksOf(pre.locks, "curr")
     /\ pre.currFD.lockToken # NULL =>
          /\ last.steps = <<"FileLock_Unlock">>
          /\ currFD = [pre.currFD EXCEPT !.lockToken = NULL]

\* FileIO_Unlock has returned FILEIO_SUCCESS on a descriptor with no token
\* whose earlier unlock had failed, the lock being still on disk
C18_Witness ==
  /\ UnlockReturned /\ last.ok
  /\ pre.currFD.lockToken = NULL
  /\ \E l \in LocksOf(locks, "curr") : ~l.live

----------------------------------------------------------------------------
(* Handles and their lock tokens *)

\* a public operation of the library has returned to the caller
PublicReturned ==
  /\ pc = "returned"
  /\ last.op \in {"FileIO_Lock", "FileIO_Unlock", "FileIO_AtomicTempFile",
                   "FileIO_AtomicExchangeFiles"}

\* a handle with no platform handle and no token, or with a platform handle
\* and a token exactly when its flags ask for locking
Coherent(fd) ==
  \/ ~FileIO_IsValid(fd) /\ fd.lockToken = NULL
  \/ /\ FileIO_IsValid(fd)
     /\ fd.lockToken # NULL <=> FILEIO_OPEN_LOCKED \in fd.flags

HoldsLock(fd, owner) ==
  \E l \in LocksOf(locks, owner) : l.path = PathOf(fd)

\* C20: after any FileIO_Lock or FileIO_Unlock call, failed unlocks
\* included, a handle has a token exactly when it holds a lock on disk on
\* its path
C20_TokenIffLockHeld ==
  /\ (LockReturned \/ UnlockReturned) =>
       (currFD.lockToken # NULL <=> HoldsLock(currFD, "curr"))
  /\ otherFD.lockToken # NULL <=> HoldsLock(otherFD, "other")

----------------------------------------------------------------------------
(* The life of a lock token *)

\* the descriptors of the model, by the name their locks are taken under
Handles == [curr |-> currFD, new |-> newFD, other |-> otherFD]

\* the descriptors that hold the token t
HoldersOf(t) == {h \in DOMAIN Handles : t \in Handles[h].lockToken}

----------------------------------------------------------------------------
(* The swap branch of FileIO_AtomicExchangeFiles *)

\* the calls of a sequence of steps
Made(steps) == {steps[i] : i \in 1..Len(steps)}

\* the swap branch was entered with the new file and the original in
\* different directories
CrossDirectory ==
  /\ hostVMK
  /\ last.op = "FileIO_AtomicExchangeFiles"
  /\ pc \in {"returned", "assert"}
  /\ DirOf(PathOf(pre.newFD)) # DirOf(PathOf(pre.currFD))

\* C22: in the swap branch, when the new file and the original are not in
\* the same directory the call fails and the swap ioctl is not made
C22_CrossDirectoryFailsFast ==
  CrossDirectory => (~last.ok /\ "ioctl" \notin Made(last.steps))

\* C23: in the swap branch FileIO_AtomicExchangeFiles returns, TRUE or
\* FALSE, with both descriptors as they were, valid, and with the caller's
\* locks on disk as they were
C23_SwapLeavesHandles ==
  (AXReturned /\ hostVMK) =>
     /\ newFD = pre.newFD
     /\ currFD = pre.currFD
     /\ FileIO_IsValid(newFD)
     /\ FileIO_IsValid(currFD)
     /\ LocksOf(locks, "curr") = LocksOf(pre.locks, "curr")

\* the swap has failed at the ioctl with the original's descriptor holding
\* a lock token
C23_Witness ==
  /\ AXReturned /\ hostVMK /\ ~last.ok
  /\ last.steps = <<"Posix_Open", "ioctl", "close">>
  /\ currFD.lockToken # NULL
  /\ FileIO_IsValid(newFD)

----------------------------------------------------------------------------
(* FileIO_MsgError *)

\* C24: FileIO_MsgError returns a message that is not empty for every value
\* it is given, FILEIO_ERROR_LAST and the values outside FileIOResult
\* included, and never ends the process
C24_MessageForEveryStatus ==
  msg.outcome # "none" => (msg.outcome = "returned" /\ msg.result # "")

----------------------------------------------------------------------------
(* The build without file locks, and the calls that ask for no lock *)

\* C25: in a build without file locks, and in every build when the access
\* does not ask for locking, FileIO_Lock returns FILEIO_SUCCESS, calls no
\* lock primitive and leaves the descriptor with no token; FileIO_Unlock on
\* such a descriptor returns FILEIO_SUCCESS, calls nothing and changes
\* nothing; and a build without file locks never has a lock on disk
C25_NoLockVariant ==
  /\ (LockReturned /\ (~fileLocks \/ FILEIO_OPEN_LOCKED \notin last.access)) =>
       /\ last.status = "FILEIO_SUCCESS"
       /\ last.steps = <<>>
       /\ currFD = pre.currFD
       /\ currFD.lockToken = NULL
       /\ LocksOf(locks, "curr") = LocksOf(pre.locks, "curr")
  /\ (UnlockReturned /\ (~fileLocks \/ pre.currFD.lockToken = NULL)) =>
       /\ last.status = "FILEIO_SUCCESS"
       /\ last.steps = <<>>
       /\ currFD = pre.currFD
       /\ LocksOf(locks, "curr") = LocksOf(pre.locks, "curr")
  /\ ~fileLocks =>
       (locks = {} /\ \A h \in DOMAIN Handles : Handles[h].lockToken = NULL)

\* in a build without file locks FileIO_Lock has been asked for an
\* exclusive lock and has returned FILEIO_SUCCESS with no token
C25_Witness ==
  /\ LockReturned /\ ~fileLocks
  /\ FILEIO_OPEN_LOCKED \in last.access
  /\ FILEIO_OPEN_ACCESS_WRITE \in last.access
  /\ last.ok /\ currFD.lockToken = NULL

----------------------------------------------------------------------------
(* The order of the rename branch *)

\* the rename branch of FileIO_AtomicExchangeFiles has begun: it is running,
\* has returned or has ended in Panic
AXBegun ==
  /\ ~hostVMK
  /\ last.op = "FileIO_AtomicExchangeFiles"
  /\ pc \in {"ax_nativeclose", "ax_rename", "ax_bail", "ax_reopen",
              "returned", "panic"}

\* File_RenameRetry has returned
RenameFinished ==
  /\ ax.attempts >= 1
  /\ RenameRetryReturns(ax.attempts - 1, ax.outcome, RenameRetries)

\* C26: the rename branch closes newFD, then closes the platform handle of
\* currFD and sets it to -1, then renames, and only when File_RenameRetry
\* has returned releases the token of currFD and reopens the file; until
\* then currFD holds the token it held at entry, and the lock is on disk
C26_RenameBranchOrder ==
  AXBegun =>
     /\ Len(last.steps) >= 1
     /\ last.steps = SubSeq(AXSteps, 1, Len(last.steps))
     /\ ~FileIO_IsValid(newFD)
     /\ "close(currFD->posix)" \notin Made(last.steps) =>
          (currFD = pre.currFD /\ fs = pre.fs)
     /\ "File_RenameRetry" \notin Made(last.steps) =>
          (ax.attempts = 0 /\ fs = pre.fs)
     /\ ("close(currFD->posix)" \in Made(last.steps)
          /\ "FileIO_Close(currFD)" \notin Made(last.steps)) =>
          /\ currFD = [pre.currFD EXCEPT !.posix = -1]
          /\ currFD.lockToken \subseteq locks
     /\ "FileIO_Close(currFD)" \in Made(last.steps) => RenameFinished
     /\ ("FileIO_Close(currFD)" \in Made(last.steps)
          /\ "FileIO_Open(currFD)" \notin Made(last.steps)) =>
          currFD = InvalidFD

\* File_RenameRetry has returned after a retry and the token held at entry
\* is still in the descriptor, whose platform handle is -1
C26_Witness ==
  /\ pc = "ax_bail"
  /\ ax.attempts > 1
  /\ pre.currFD.lockToken # NULL
  /\ currFD.lockToken = pre.currFD.lockToken
  /\ currFD.posix = -1

----------------------------------------------------------------------------
(* Closing a descriptor *)

\* FileIO_Close, FileIO_CloseAndUnlink have returned to the caller
CloseReturned == pc = "returned" /\ last.op = "FileIO_Close"
CAUReturned == pc = "returned" /\ last.op = "FileIO_CloseAndUnlink"

\* C27 as stated: a descriptor never has its platform handle released
\* while it still holds its lock token, in FileIO_Close as inside the
\* rename branch of FileIO_AtomicExchangeFiles
C27_AsStated ==
  /\ \A h \in DOMAIN Handles :
       ~FileIO_IsValid(Handles[h]) => Handles[h].lockToken = NULL
  /\ CloseReturned => currFD = InvalidFD

\* C27: FileIO_Close releases the lock token before it closes the platform
\* handle and leaves the descriptor invalid; a descriptor without platform
\* handle holds a token only inside the rename branch of
\* FileIO_AtomicExchangeFiles, between the native close and line 853, where
\* the platform handle of currFD is released first and the token after the
\* rename, the descriptor being invalid from then to the reopen
C27_ReleaseOrder ==
  /\ CloseReturned =>
       /\ currFD = InvalidFD
       /\ last.steps = (IF pre.currFD.lockToken # NULL
                         THEN <<"FileLock_Unlock">> ELSE <<>>) \o <<"close">>
  /\ \A h \in DOMAIN Handles :
       (~FileIO_IsValid(Handles[h]) /\ Handles[h].lockToken # NULL) =>
          /\ h = "curr"
          /\ pc \in {"ax_rename", "ax_bail"}
          /\ currFD.lockToken = pre.currFD.lockToken
  /\ pc = "ax_reopen" => currFD = InvalidFD

\* inside the rename branch the platform handle of currFD is gone, its
\* token is still held and the lock is on disk
C27_Witness ==
  /\ pc = "ax_rename"
  /\ ~FileIO_IsValid(currFD)
  /\ currFD.lockToken # NULL
  /\ currFD.lockToken \subseteq locks

\* C28: FileIO_CloseAndUnlink returns FALSE exactly when the close and then
\* the unlink succeeded, the file being gone; when the close reports an
\* error File_Unlink is not called, the file stays and TRUE is returned;
\* the descriptor is invalid afterward in every case
C28_CloseAndUnlink ==
  CAUReturned =>
     /\ last.ok <=> last.status = "none"
     /\ last.ok => ~fs[PathOf(pre.newFD)].exists
     /\ last.status = "close" =>
          /\ last.steps = <<"FileIO_Close">>
          /\ fs = pre.fs
          /\ ~last.ok
     /\ last.status # "close" => last.steps = <<"FileIO_Close", "File_Unlink">>
     /\ last.status = "unlink" => fs = pre.fs
     /\ newFD = InvalidFD
     /\ currFD = pre.currFD

\* the close has reported an error and the file, with content, is still
\* at its path
C28_Witness ==
  /\ CAUReturned /\ last.status = "close" /\ ~last.ok
  /\ fs[PathOf(pre.newFD)].exists
  /\ fs[PathOf(pre.newFD)].content # 0

----------------------------------------------------------------------------
(* The descriptors of FileIO_AtomicTempFile, the lock FileIO_Lock asks for *)

\* C29: when FileIO_AtomicTempFile returns FALSE the temporary descriptor is
\* invalid, and whatever it returns the descriptor of the original has the
\* platform handle, flags, path and lock token it had, its lock on disk
\* included
C29_TempFileHandles ==
  ATFReturned =>
     /\ ~last.ok => (~FileIO_IsValid(newFD) /\ newFD = InvalidFD)
     /\ last.ok => FileIO_IsValid(newFD)
     /\ currFD = pre.currFD
     /\ LocksOf(locks, "curr") = LocksOf(pre.locks, "curr")

\* the sibling was created, fchown has failed, and the original is open
\* with its lock held
C29_Witness ==
  /\ ATFReturned /\ ~last.ok /\ last.status = "chown"
  /\ ~FileIO_IsValid(newFD)
  /\ FileIO_IsValid(currFD)
  /\ currFD.lockToken # NULL
  /\ currFD.lockToken \subseteq locks

\* C30: FileIO_Lock calls the lock primitive only when the flags include
\* FILEIO_OPEN_LOCKED, then once, for a shared lock when the flags have no
\* write access and for an exclusive one when they have; the token it gets
\* is of that kind
C30_LockKindFollowsAccess ==
  LockReturned =>
     /\ last.steps =
          (IF FILEIO_OPEN_LOCKED \in last.access
           THEN <<(IF FILEIO_OPEN_ACCESS_WRITE \in last.access
                   THEN "FileLock_Lock(exclusive)"
                   ELSE "FileLock_Lock(readOnly)")>>
           ELSE <<>>)
     /\ currFD.lockToken # pre.currFD.lockToken =>
          /\ FILEIO_OPEN_LOCKED \in last.access
          /\ \A t \in currFD.lockToken :
               t.excl <=> FILEIO_OPEN_ACCESS_WRITE \in last.access

\* a shared lock was asked for and given beside the shared lock of the
\* second process
C30_Witness ==
  /\ LockReturned
  /\ FILEIO_OPEN_LOCKED \in last.access
  /\ FILEIO_OPEN_ACCESS_WRITE \notin last.access
  /\ last.steps = <<"FileLock_Lock(readOnly)">>
  /\ currFD.lockToken # NULL
  /\ \A t \in currFD.lockToken : ~t.excl
  /\ otherFD.lockToken # NULL

----------------------------------------------------------------------------
(* The pieces of the device record *)

\* GuestApp_GetDeviceInfo has returned
GDIReturned == dev.pc = "returned"

\* the pieces fetched so far
Fetched == {dev.fetches[i] : i \in 1..Len(dev.fetches)}

\* C31: GuestApp_GetDeviceInfo fetches the pieces at offsets 0, 4, 8, ...
\* below the record size, in this order; it returns TRUE exactly when every
\* piece of the record was fetched and none was refused; when it returns
\* FALSE the last fetch is the first refused piece, nothing was fetched after
\* it, and the word of that piece and the words after it are not written;
\* every piece fetched before holds what the host gave
C31_PiecesUntilFirstFailure ==
  dev.pc # "none" =>
     /\ \A i \in 1..Len(dev.fetches) :
          /\ dev.fetches[i] = SizeofUint32 * (i - 1)
          /\ dev.fetches[i] < dev.size
     /\ GDIReturned =>
          /\ dev.ret <=> (\A o \in PieceOffsets(dev.size) : o \notin dev.fails)
          /\ dev.ret => Fetched = PieceOffsets(dev.size)
          /\ ~dev.ret =>
               /\ Len(dev.fetches) > 0
               /\ dev.fetches[Len(dev.fetches)] \in dev.fails
               /\ \A i \in 1..(Len(dev.fetches) - 1) :
                    dev.fetches[i] \notin dev.fails
               /\ \A w \in Len(dev.fetches)..NWords(dev.size) :
                    dev.info[w] = Untouched
          /\ \A i \in 1..Len(dev.fetches) :
               dev.fetches[i] \notin dev.fails =>
                  dev.info[i] = HostWord(dev.id, dev.fetches[i])

\* the host refuses the second and the third piece of a record of three:
\* FALSE after two fetches, the first word written, the others not
C31_Witness ==
  /\ GDIReturned /\ ~dev.ret
  /\ NWords(dev.size) > 2
  /\ dev.fails = PieceOffsets(dev.size) \ {0}
  /\ dev.fetches = <<0, SizeofUint32>>
  /\ dev.info[1] = HostWord(dev.id, 0)
  /\ dev.info[2] = Untouched

====
